---- MODULE Spec2Model ----
(***************************************************************************)
(* Declaration-name validator of hir_ty (diagnostics/decl_check.rs).       *)
(*                                                                         *)
(* A DeclValidator is built over an owner item and a diagnostic sink.      *)
(* validate_item classifies the item's own name and the names of its       *)
(* parameters / record fields, collects Replacements, then looks the       *)
(* declaration up in the concrete syntax and pushes one IncorrectCase      *)
(* diagnostic per Replacement whose syntax node it can locate.             *)
(*                                                                         *)
(* Identifiers are sequences of one-character strings.  An Option value is *)
(* a sequence of length 0 (None) or 1 (Some).                              *)
(***************************************************************************)
EXTENDS Integers, Sequences, FiniteSets, TLC

VARIABLES
    owner,      \* ModuleDefId kind of the validator's owner
    data,       \* semantic data of the owner (function_data / struct_data)
    src,        \* concrete syntax of the owner's declaration
    sink,       \* the DiagnosticSink: sequence of IncorrectCase diagnostics
    call,       \* record of the last validate_item call
    calls,      \* number of validate_item calls made on the validator
    cl_name,    \* classifier harness: the identifier under test
    cl_case,    \* classifier harness: the target convention
    cl_first,   \* classifier harness: Option result of the first application
    cl_second,  \* classifier harness: Option result of re-checking
    cl_pc       \* classifier harness: "input", "classified" or "rechecked"

vars == <<owner, data, src, sink, call, calls,
          cl_name, cl_case, cl_first, cl_second, cl_pc>>

None == <<>>
Some(x) == <<x>>
IsSome(o) == Len(o) = 1
Unwrap(o) == o[1]

----------------------------------------------------------------------------
(* Bounds *)

\* longest parameter / field list in the semantic data
MaxParams == 2
\* longest child sequence of a concrete parameter / record field list
MaxChildren == 2
\* longest identifier the classifier harness enumerates
MaxLen == 5
\* most validate_item calls made on one validator
MaxCalls == 2

----------------------------------------------------------------------------
(* Characters *)

LowerChars == <<"a","b","c","d","e","f","g","h","i","j","k","l","m",
                "n","o","p","q","r","s","t","u","v","w","x","y","z">>
UpperChars == <<"A","B","C","D","E","F","G","H","I","J","K","L","M",
                "N","O","P","Q","R","S","T","U","V","W","X","Y","Z">>
DigitChars == {"0","1","2","3","4","5","6","7","8","9"}

IsLower(c) == \E i \in DOMAIN LowerChars : LowerChars[i] = c
IsUpper(c) == \E i \in DOMAIN UpperChars : UpperChars[i] = c
IsDigit(c) == c \in DigitChars

ToLower(c) ==
    IF IsUpper(c)
    THEN LowerChars[CHOOSE i \in DOMAIN UpperChars : UpperChars[i] = c]
    ELSE c

ToUpper(c) ==
    IF IsLower(c)
    THEN UpperChars[CHOOSE i \in DOMAIN LowerChars : LowerChars[i] = c]
    ELSE c

LowerWord(w) == [i \in DOMAIN w |-> ToLower(w[i])]

----------------------------------------------------------------------------
(* Case classifier / converter (module str_helpers) *)

CaseTypes == {"LowerSnakeCase", "UpperCamelCase"}

\* length of the run of leading underscores
LeadingUnderscores(name) ==
    Cardinality({k \in 1..Len(name) : \A i \in 1..k : name[i] = "_"})

\* length of the run of trailing underscores
TrailingUnderscores(name) ==
    Cardinality({k \in 1..Len(name) :
                    \A i \in (Len(name) - k + 1)..Len(name) : name[i] = "_"})

\* the name without its leading and trailing underscore runs
Core(name) ==
    IF LeadingUnderscores(name) = Len(name) THEN <<>>
    ELSE SubSeq(name, LeadingUnderscores(name) + 1,
                Len(name) - TrailingUnderscores(name))

\* StartsWord without the case boundaries: only underscores split words
StartsWord_UnderscoreOnly(core, i) == FALSE

\* core[i] (i > 1, core[i-1] not an underscore) starts a new word: it is an
\* uppercase letter after a lowercase letter or digit, or the last letter of
\* an uppercase run that a lowercase letter follows
StartsWord(core, i) ==
    /\ IsUpper(core[i])
    /\ \/ IsLower(core[i-1])
       \/ IsDigit(core[i-1])
       \/ /\ IsUpper(core[i-1])
          /\ i < Len(core)
          /\ IsLower(core[i+1])

RECURSIVE SplitFrom(_, _, _, _)
SplitFrom(core, i, cur, words) ==
    IF i > Len(core)
    THEN IF cur = <<>> THEN words ELSE Append(words, cur)
    ELSE IF core[i] = "_"
    THEN SplitFrom(core, i + 1, <<>>,
                   IF cur = <<>> THEN words ELSE Append(words, cur))
    ELSE IF cur # <<>> /\ StartsWord(core, i)
    THEN SplitFrom(core, i + 1, <<core[i]>>, Append(words, cur))
    ELSE SplitFrom(core, i + 1, Append(cur, core[i]), words)

\* the words of a core, left to right
SplitWords(core) == SplitFrom(core, 1, <<>>, <<>>)

\* Capitalize that also puts the rest of the word in lower case
Capitalize_LowerRest(w) ==
    [i \in DOMAIN w |-> IF i = 1 THEN ToUpper(w[i]) ELSE ToLower(w[i])]

\* a word with its first character in upper case
Capitalize(w) == [i \in DOMAIN w |-> IF i = 1 THEN ToUpper(w[i]) ELSE w[i]]

RECURSIVE JoinSnake(_)
JoinSnake(words) ==
    IF words = <<>> THEN <<>>
    ELSE IF Len(words) = 1 THEN LowerWord(words[1])
    ELSE LowerWord(words[1]) \o <<"_">> \o JoinSnake(Tail(words))

RECURSIVE JoinCamel(_)
JoinCamel(words) ==
    IF words = <<>> THEN <<>>
    ELSE Capitalize(words[1]) \o JoinCamel(Tail(words))

Reassemble(words, convention) ==
    IF convention = "LowerSnakeCase" THEN JoinSnake(words) ELSE JoinCamel(words)

\* the name rewritten in the convention, underscore runs kept around it
Convert(name, convention) ==
    SubSeq(name, 1, LeadingUnderscores(name))
        \o Reassemble(SplitWords(Core(name)), convention)
        \o SubSeq(name, Len(name) - TrailingUnderscores(name) + 1, Len(name))

classify_and_suggest(name, convention) ==
    IF Core(name) = <<>> THEN None
    ELSE IF Convert(name, convention) = name THEN None
    ELSE Some(Convert(name, convention))

to_lower_snake_case(name) == classify_and_suggest(name, "LowerSnakeCase")

to_camel_case(name) == classify_and_suggest(name, "UpperCamelCase")

\* Option::unwrap_or
unwrap_or(o, default) == IF IsSome(o) THEN Unwrap(o) ELSE default

----------------------------------------------------------------------------
(* Replacements and diagnostics *)

Replacement(current_name, suggested_text, expected_case) ==
    [current_name |-> current_name,
     suggested_text |-> suggested_text,
     expected_case |-> expected_case]

\* An AstPtr: the declaration's name node (index 0) or the pattern / name of
\* the index-th child of its parameter / record field list
AstPtr(node, index) == [node |-> node, index |-> index]

IncorrectCase(ident_type, ident, replacement) ==
    [file |-> "file_id",
     ident_type |-> ident_type,
     ident |-> ident,
     expected_case |-> replacement.expected_case,
     ident_text |-> replacement.current_name,
     suggested_text |-> replacement.suggested_text]

\* Outcome of one emitter call: the diagnostics pushed, the number of source
\* lookups and of log::error! calls, whether the list walk was reached, the
\* number of children taken from the list iterator, and how the call ended
Result(pushed, lookups, errors, walked, steps, outcome) ==
    [pushed |-> pushed, lookups |-> lookups, errors |-> errors,
     walked |-> walked, steps |-> steps, outcome |-> outcome]

----------------------------------------------------------------------------
(* Functions *)

\* a pattern node: an identifier pattern with its rendered text, or any
\* other pattern
IdentPat(text) == [kind |-> "IdentPat", text |-> text]
OtherPat == [kind |-> "OtherPat", text |-> <<>>]

\* pat_equals_to_name that accepts any identifier pattern
pat_equals_to_name_AnyIdent(pat, name) ==
    IsSome(pat) /\ Unwrap(pat).kind = "IdentPat"

pat_equals_to_name(pat, name) ==
    IF IsSome(pat) /\ Unwrap(pat).kind = "IdentPat"
    THEN Unwrap(pat).text = name
    ELSE FALSE

\* the loop of fn_params_iter.next(): index of the first child after cursor
\* whose pattern equals name, 0 when the iterator is exhausted first
RECURSIVE NextParam(_, _, _)
NextParam(params, cursor, name) ==
    IF cursor >= Len(params) THEN 0
    ELSE IF pat_equals_to_name(params[cursor + 1].pat, name) THEN cursor + 1
    ELSE NextParam(params, cursor + 1, name)

\* the walk that does not move on to the next Replacement after a match
RECURSIVE FuncParamsWalk_SameReplacement(_, _, _)
FuncParamsWalk_SameReplacement(params, cursor, replacements) ==
    IF replacements = <<>>
    THEN Result(<<>>, 0, 0, TRUE, 0, "returned")
    ELSE LET param_to_rename == Head(replacements)
             found == NextParam(params, cursor, param_to_rename.current_name)
         IN  IF found = 0
             THEN Result(<<>>, 0, 1, TRUE, Len(params) - cursor + 1, "returned")
             ELSE IF ~IsSome(params[found].pat)
             THEN Result(<<>>, 0, 0, TRUE, found - cursor, "panicked")
             ELSE LET rest == FuncParamsWalk_SameReplacement(params, found,
                                                             replacements)
                  IN  Result(<<IncorrectCase("Argument", AstPtr("pat", found),
                                             param_to_rename)>> \o rest.pushed,
                             0, rest.errors, TRUE,
                             (found - cursor) + rest.steps, rest.outcome)

\* the for loop over fn_param_replacements, the iterator standing at cursor
RECURSIVE FuncParamsWalk(_, _, _)
FuncParamsWalk(params, cursor, replacements) ==
    IF replacements = <<>>
    THEN Result(<<>>, 0, 0, TRUE, 0, "returned")
    ELSE LET param_to_rename == Head(replacements)
             found == NextParam(params, cursor, param_to_rename.current_name)
         IN  IF found = 0
             THEN Result(<<>>, 0, 1, TRUE, Len(params) - cursor + 1, "returned")
             ELSE IF ~IsSome(params[found].pat)
             THEN Result(<<>>, 0, 0, TRUE, found - cursor, "panicked")
             ELSE LET rest == FuncParamsWalk(params, found, Tail(replacements))
                  IN  Result(<<IncorrectCase("Argument", AstPtr("pat", found),
                                             param_to_rename)>> \o rest.pushed,
                             0, rest.errors, TRUE,
                             (found - cursor) + rest.steps, rest.outcome)

\* the early return when there is nothing to report
FuncNothingToReport(fn_name_replacement, fn_param_replacements) ==
    ~IsSome(fn_name_replacement) /\ fn_param_replacements = <<>>

\* the own-name stage that only skips the name diagnostic on a missing node
FuncNameStage_SkipOnly(fn_src, fn_name_replacement) ==
    IF ~IsSome(fn_name_replacement)
    THEN [pushed |-> <<>>, errors |-> 0, abort |-> FALSE]
    ELSE IF ~IsSome(fn_src.name)
    THEN [pushed |-> <<>>, errors |-> 1, abort |-> FALSE]
    ELSE [pushed |-> <<IncorrectCase("Function", AstPtr("name", 0),
                                     Unwrap(fn_name_replacement))>>,
          errors |-> 0, abort |-> FALSE]

\* the own-name stage; abort is the return on a missing name node
FuncNameStage(fn_src, fn_name_replacement) ==
    IF ~IsSome(fn_name_replacement)
    THEN [pushed |-> <<>>, errors |-> 0, abort |-> FALSE]
    ELSE IF ~IsSome(fn_src.name)
    THEN [pushed |-> <<>>, errors |-> 1, abort |-> TRUE]
    ELSE [pushed |-> <<IncorrectCase("Function", AstPtr("name", 0),
                                     Unwrap(fn_name_replacement))>>,
          errors |-> 0, abort |-> FALSE]

\* the parameter stage: the parameter list lookup and the walk over it
FuncParamsStage(fn_src, fn_param_replacements) ==
    IF ~IsSome(fn_src.param_list)
    THEN Result(<<>>, 0, IF fn_param_replacements # <<>> THEN 1 ELSE 0,
                FALSE, 0, "returned")
    ELSE FuncParamsWalk(Unwrap(fn_src.param_list), 0, fn_param_replacements)

create_incorrect_case_diagnostic_for_func(fn_src, fn_name_replacement, fn_param_replacements) ==
    IF FuncNothingToReport(fn_name_replacement, fn_param_replacements)
    THEN Result(<<>>, 0, 0, FALSE, 0, "returned")
    ELSE LET own == FuncNameStage(fn_src, fn_name_replacement)
             list == FuncParamsStage(fn_src, fn_param_replacements)
         IN  IF own.abort
             THEN Result(<<>>, 1, own.errors, FALSE, 0, "returned")
             ELSE Result(own.pushed \o list.pushed, 1,
                         own.errors + list.errors, list.walked, list.steps,
                         list.outcome)

\* the Replacement of the function's own name, if any
FuncNameReplacement(fn_data) ==
    IF IsSome(to_lower_snake_case(fn_data.name))
    THEN Some(Replacement(fn_data.name,
                          Unwrap(to_lower_snake_case(fn_data.name)),
                          "LowerSnakeCase"))
    ELSE None

\* the Replacements of the named parameters, in declaration order
RECURSIVE FuncParamReplacements(_)
FuncParamReplacements(param_names) ==
    IF param_names = <<>> THEN <<>>
    ELSE IF ~IsSome(Head(param_names))
    THEN FuncParamReplacements(Tail(param_names))
    ELSE IF IsSome(to_lower_snake_case(Unwrap(Head(param_names))))
    THEN <<Replacement(Unwrap(Head(param_names)),
                       Unwrap(to_lower_snake_case(Unwrap(Head(param_names)))),
                       "LowerSnakeCase")>>
             \o FuncParamReplacements(Tail(param_names))
    ELSE FuncParamReplacements(Tail(param_names))

validate_func(fn_data, fn_src) ==
    create_incorrect_case_diagnostic_for_func(
        fn_src, FuncNameReplacement(fn_data),
        FuncParamReplacements(fn_data.param_names))

----------------------------------------------------------------------------
(* Structs *)

\* an ast::Name node with its text
AstName(text) == [text |-> text]

\* AsName for ast::Name: the Name the node's text stands for
as_name(name_node) == name_node.text

\* names_equal that takes an absent name for a match
names_equal_AbsentMatches(left, right) ==
    IF IsSome(left) THEN as_name(Unwrap(left)) = right ELSE TRUE

names_equal(left, right) ==
    IF IsSome(left) THEN as_name(Unwrap(left)) = right ELSE FALSE

\* the loop of struct_fields_iter.next(): index of the first child after
\* cursor whose name equals name, 0 when the iterator is exhausted first
RECURSIVE NextField(_, _, _)
NextField(fields, cursor, name) ==
    IF cursor >= Len(fields) THEN 0
    ELSE IF names_equal(fields[cursor + 1].name, name) THEN cursor + 1
    ELSE NextField(fields, cursor + 1, name)

\* the walk that reports the fields only when every one of them was found
RECURSIVE StructFieldsWalk_AllOrNothing(_, _, _)
StructFieldsWalk_AllOrNothing(fields, cursor, replacements) ==
    IF replacements = <<>>
    THEN Result(<<>>, 0, 0, TRUE, 0, "returned")
    ELSE LET field_to_rename == Head(replacements)
             found == NextField(fields, cursor, field_to_rename.current_name)
         IN  IF found = 0
             THEN Result(<<>>, 0, 1, TRUE, Len(fields) - cursor + 1, "returned")
             ELSE IF ~IsSome(fields[found].name)
             THEN Result(<<>>, 0, 0, TRUE, found - cursor, "panicked")
             ELSE LET rest == StructFieldsWalk_AllOrNothing(fields, found,
                                                            Tail(replacements))
                  IN  Result(IF rest.errors > 0 THEN <<>>
                             ELSE <<IncorrectCase("Field", AstPtr("name", found),
                                                  field_to_rename)>>
                                      \o rest.pushed,
                             0, rest.errors, TRUE,
                             (found - cursor) + rest.steps, rest.outcome)

\* the for loop over struct_fields_replacements, the iterator at cursor
RECURSIVE StructFieldsWalk(_, _, _)
StructFieldsWalk(fields, cursor, replacements) ==
    IF replacements = <<>>
    THEN Result(<<>>, 0, 0, TRUE, 0, "returned")
    ELSE LET field_to_rename == Head(replacements)
             found == NextField(fields, cursor, field_to_rename.current_name)
         IN  IF found = 0
             THEN Result(<<>>, 0, 1, TRUE, Len(fields) - cursor + 1, "returned")
             ELSE IF ~IsSome(fields[found].name)
             THEN Result(<<>>, 0, 0, TRUE, found - cursor, "panicked")
             ELSE LET rest == StructFieldsWalk(fields, found, Tail(replacements))
                  IN  Result(<<IncorrectCase("Field", AstPtr("name", found),
                                             field_to_rename)>> \o rest.pushed,
                             0, rest.errors, TRUE,
                             (found - cursor) + rest.steps, rest.outcome)

\* no early return: the sources are always looked up
StructNothingToReport_Never(struct_name_replacement, struct_fields_replacements) ==
    FALSE

\* the early return when there is nothing to report
StructNothingToReport(struct_name_replacement, struct_fields_replacements) ==
    ~IsSome(struct_name_replacement) /\ struct_fields_replacements = <<>>

\* the own-name stage; abort is the return on a missing name node
StructNameStage(struct_src, struct_name_replacement) ==
    IF ~IsSome(struct_name_replacement)
    THEN [pushed |-> <<>>, errors |-> 0, abort |-> FALSE]
    ELSE IF ~IsSome(struct_src.name)
    THEN [pushed |-> <<>>, errors |-> 1, abort |-> TRUE]
    ELSE [pushed |-> <<IncorrectCase("Structure", AstPtr("name", 0),
                                     Unwrap(struct_name_replacement))>>,
          errors |-> 0, abort |-> FALSE]

\* the field stage: the record field list lookup and the walk over it
StructFieldsStage(struct_src, struct_fields_replacements) ==
    IF IsSome(struct_src.field_list)
       /\ Unwrap(struct_src.field_list).kind = "RecordFieldList"
    THEN StructFieldsWalk(Unwrap(struct_src.field_list).fields, 0,
                          struct_fields_replacements)
    ELSE Result(<<>>, 0, IF struct_fields_replacements # <<>> THEN 1 ELSE 0,
                FALSE, 0, "returned")

\* the emitter that looks for the record field list before the name
create_incorrect_case_diagnostic_for_struct_ListFirst(struct_src, struct_name_replacement, struct_fields_replacements) ==
    IF StructNothingToReport(struct_name_replacement, struct_fields_replacements)
    THEN Result(<<>>, 0, 0, FALSE, 0, "returned")
    ELSE LET own == StructNameStage(struct_src, struct_name_replacement)
             list == StructFieldsStage(struct_src, struct_fields_replacements)
         IN  IF ~list.walked \/ own.abort
             THEN Result(<<>>, 1, own.errors + list.errors, FALSE, 0, "returned")
             ELSE Result(own.pushed \o list.pushed, 1,
                         own.errors + list.errors, list.walked, list.steps,
                         list.outcome)

create_incorrect_case_diagnostic_for_struct(struct_src, struct_name_replacement, struct_fields_replacements) ==
    IF StructNothingToReport(struct_name_replacement, struct_fields_replacements)
    THEN Result(<<>>, 0, 0, FALSE, 0, "returned")
    ELSE LET own == StructNameStage(struct_src, struct_name_replacement)
             list == StructFieldsStage(struct_src, struct_fields_replacements)
         IN  IF own.abort
             THEN Result(<<>>, 1, own.errors, FALSE, 0, "returned")
             ELSE Result(own.pushed \o list.pushed, 1,
                         own.errors + list.errors, list.walked, list.steps,
                         list.outcome)

\* the Replacement of the struct's own name, if any
StructNameReplacement(struct_data) ==
    IF IsSome(to_camel_case(struct_data.name))
    THEN Some(Replacement(struct_data.name,
                          Unwrap(to_camel_case(struct_data.name)),
                          "UpperCamelCase"))
    ELSE None

\* the Replacements of the fields of a record, in declaration order
RECURSIVE RecordFieldReplacements(_)
RecordFieldReplacements(fields) ==
    IF fields = <<>> THEN <<>>
    ELSE IF IsSome(to_lower_snake_case(Head(fields)))
    THEN <<Replacement(Head(fields), Unwrap(to_lower_snake_case(Head(fields))),
                       "LowerSnakeCase")>>
             \o RecordFieldReplacements(Tail(fields))
    ELSE RecordFieldReplacements(Tail(fields))

\* field Replacements taken from every kind of variant data
StructFieldsReplacements_AllVariants(variant_data) ==
    RecordFieldReplacements(variant_data.fields)

\* the field Replacements of a struct: only VariantData::Record has any
StructFieldsReplacements(variant_data) ==
    IF variant_data.kind = "Record"
    THEN RecordFieldReplacements(variant_data.fields)
    ELSE <<>>

validate_struct(struct_data, struct_src) ==
    create_incorrect_case_diagnostic_for_struct(
        struct_src, StructNameReplacement(struct_data),
        StructFieldsReplacements(struct_data.variant_data))

\* enum data is read and nothing is checked
validate_enum(enum_data) == Result(<<>>, 0, 0, FALSE, 0, "returned")

validate_adt(adt_kind, adt_data, adt_src) ==
    IF adt_kind = "StructId" THEN validate_struct(adt_data, adt_src)
    ELSE IF adt_kind = "EnumId" THEN validate_enum(adt_data)
    ELSE Result(<<>>, 0, 0, FALSE, 0, "returned")

----------------------------------------------------------------------------
(* Inputs *)

BoundedSeqs(S, n) == UNION {[1..k -> S] : k \in 0..n}

\* "ok" is lower snake case, "Ok" upper camel case, "NO" neither for a
\* parameter or field
NameOk == <<"o", "k">>
NameCamel == <<"O", "k">>
NameCaps == <<"N", "O">>
OwnNames == {NameOk, NameCamel}
NamePool == {NameOk, NameCamel, NameCaps}

OwnerKinds == {"FunctionId", "StructId", "EnumId", "UnionId", "Other"}

\* function_data: the name and the parameter names (None for a parameter
\* that is no plain binding)
FunctionData ==
    [name : OwnNames,
     param_names : BoundedSeqs({None} \cup {Some(n) : n \in NamePool}, MaxParams)]

ParamNodes ==
    {[pat |-> p] : p \in {None, Some(OtherPat)}
                          \cup {Some(IdentPat(n)) : n \in NamePool}}

ParamLists == {None} \cup {Some(ps) : ps \in BoundedSeqs(ParamNodes, MaxChildren)}

\* struct_data: the name and the variant data
VariantDatas ==
    {[kind |-> k, fields |-> f] :
        k \in {"Record", "Tuple"}, f \in BoundedSeqs(NamePool, MaxParams)}
    \cup {[kind |-> "Unit", fields |-> <<>>]}

StructData == [name : OwnNames, variant_data : VariantDatas]

FieldNodes ==
    {[name |-> None]} \cup {[name |-> Some(AstName(n))] : n \in NamePool}

FieldLists ==
    {None, Some([kind |-> "TupleFieldList", fields |-> <<>>])}
    \cup {Some([kind |-> "RecordFieldList", fields |-> fs]) :
             fs \in BoundedSeqs(FieldNodes, MaxChildren)}

\* the name node of a declaration is missing or carries the declared name
NameNodes(d) == {None, Some(AstName(d.name))}

NoCall == [before |-> <<>>] @@ Result(<<>>, 0, 0, FALSE, 0, "none")

\* the identifiers of the tests of decl_check.rs and of the properties
TestNames ==
    {<<"N","o","n","S","n","a","k","e","C","a","s","e","N","a","m","e">>,
     <<"S","o","m","e","P","a","r","a","m">>,
     <<"C","A","P","S","_","P","A","R","A","M">>,
     <<"S","o","m","e","F","i","e","l","d">>,
     <<"n","o","n","_","c","a","m","e","l","_","c","a","s","e","_","n","a","m","e">>,
     <<"f","o","o","_","b","a","r">>,
     <<"F","o","o","B","a","r">>}

Alphabet == {"a", "b", "A", "B", "1", "_"}

Idents == BoundedSeqs(Alphabet, MaxLen) \cup TestNames

----------------------------------------------------------------------------
(* The validator *)

HarnessIdle ==
    /\ cl_name = <<>>
    /\ cl_case = "LowerSnakeCase"
    /\ cl_first = None
    /\ cl_second = None
    /\ cl_pc = "idle"

\* DeclValidator::new over an owner and an empty sink
Init ==
    /\ owner \in OwnerKinds
    /\ \/ /\ owner = "FunctionId"
          /\ data \in FunctionData
          /\ \E pl \in ParamLists, nn \in NameNodes(data) :
                src = [name |-> nn, param_list |-> pl]
       \/ /\ owner = "StructId"
          /\ data \in StructData
          /\ \E fl \in FieldLists, nn \in NameNodes(data) :
                src = [name |-> nn, field_list |-> fl]
       \/ /\ owner \in {"EnumId", "UnionId", "Other"}
          /\ data \in [name : OwnNames]
          /\ \E nn \in NameNodes(data) : src = [name |-> nn]
    /\ sink = <<>>
    /\ call = NoCall
    /\ calls = 0
    /\ HarnessIdle

\* the effect of one validate_item call with outcome res
Finish(res) ==
    /\ calls < MaxCalls
    /\ call.outcome # "panicked"
    /\ sink' = sink \o res.pushed
    /\ call' = [before |-> sink] @@ res
    /\ calls' = calls + 1
    /\ UNCHANGED <<owner, data, src, cl_name, cl_case, cl_first, cl_second, cl_pc>>

\* validate_item, owner a function
ValidateFunction ==
    /\ owner = "FunctionId"
    /\ Finish(validate_func(data, src))

\* validate_item, owner a struct, enum or union
ValidateAdt ==
    /\ owner \in {"StructId", "EnumId", "UnionId"}
    /\ Finish(validate_adt(owner, data, src))

\* validate_item, any other owner
ValidateOther ==
    /\ owner = "Other"
    /\ Finish(Result(<<>>, 0, 0, FALSE, 0, "returned"))

Next == ValidateFunction \/ ValidateAdt \/ ValidateOther

Spec == Init /\ [][Next]_vars

----------------------------------------------------------------------------
(* The classifier applied to an identifier, then to its own suggestion *)

InitClassify ==
    /\ owner = "Other"
    /\ data = [name |-> NameOk]
    /\ src = [name |-> None]
    /\ sink = <<>>
    /\ call = NoCall
    /\ calls = 0
    /\ cl_name \in Idents
    /\ cl_case \in CaseTypes
    /\ cl_first = None
    /\ cl_second = None
    /\ cl_pc = "input"

Classify ==
    /\ cl_pc = "input"
    /\ cl_first' = classify_and_suggest(cl_name, cl_case)
    /\ cl_pc' = "classified"
    /\ UNCHANGED <<owner, data, src, sink, call, calls, cl_name, cl_case, cl_second>>

Recheck ==
    /\ cl_pc = "classified"
    /\ cl_second' = classify_and_suggest(unwrap_or(cl_first, cl_name), cl_case)
    /\ cl_pc' = "rechecked"
    /\ UNCHANGED <<owner, data, src, sink, call, calls, cl_name, cl_case, cl_first>>

NextClassify == Classify \/ Recheck

SpecClassify == InitClassify /\ [][NextClassify]_vars

----------------------------------------------------------------------------
(* Reading a state *)

\* the Replacements validate_item hands to the emitter for the owner
OwnReplacement(kind, d) ==
    IF kind = "FunctionId" THEN FuncNameReplacement(d)
    ELSE IF kind = "StructId" THEN StructNameReplacement(d)
    ELSE None

ListReplacements(kind, d) ==
    IF kind = "FunctionId" THEN FuncParamReplacements(d.param_names)
    ELSE IF kind = "StructId" THEN StructFieldsReplacements(d.variant_data)
    ELSE <<>>

Called == call.outcome # "none"
IsDecl == owner \in {"FunctionId", "StructId"}
OwnRepl == OwnReplacement(owner, data)
ListRepls == ListReplacements(owner, data)

\* the declaration has the list container its walk needs
HasContainer ==
    \/ owner = "FunctionId" /\ IsSome(src.param_list)
    \/ /\ owner = "StructId"
       /\ IsSome(src.field_list)
       /\ Unwrap(src.field_list).kind = "RecordFieldList"

\* the concrete children of the container
Children ==
    IF ~HasContainer THEN <<>>
    ELSE IF owner = "FunctionId" THEN Unwrap(src.param_list)
    ELSE Unwrap(src.field_list).fields

\* the rendered name of a concrete child, None when it has none
RenderedName(child) ==
    IF owner = "FunctionId"
    THEN IF IsSome(child.pat) /\ Unwrap(child.pat).kind = "IdentPat"
         THEN Some(Unwrap(child.pat).text) ELSE None
    ELSE IF IsSome(child.name) THEN Some(Unwrap(child.name).text) ELSE None

Rendered == [i \in 1..Len(Children) |-> RenderedName(Children[i])]

\* the child has neither pattern nor name to unwrap
Unnamed(child) ==
    IF owner = "FunctionId" THEN ~IsSome(child.pat) ELSE ~IsSome(child.name)

IsListDiag(d) == d.ident_type \in {"Argument", "Field"}
IsOwnDiag(d) == d.ident_type \in {"Function", "Structure"}
ListPushed == SelectSeq(call.pushed, IsListDiag)
OwnPushed == SelectSeq(call.pushed, IsOwnDiag)

\* the diagnostic a Replacement gives at a node
ExpectedDiag(ident_type, node, index, r) ==
    [file |-> "file_id", ident_type |-> ident_type,
     ident |-> [node |-> node, index |-> index],
     expected_case |-> r.expected_case, ident_text |-> r.current_name,
     suggested_text |-> r.suggested_text]

OwnType == IF owner = "FunctionId" THEN "Function" ELSE "Structure"
ListType == IF owner = "FunctionId" THEN "Argument" ELSE "Field"
ListNode == IF owner = "FunctionId" THEN "pat" ELSE "name"

\* the first k current_names of the Replacements repls occur, in order,
\* among the rendered names
IsSubsequence(repls, k, rendered) ==
    \E f \in [1..k -> 1..Len(rendered)] :
        /\ \A a, b \in 1..k : a < b => f[a] < f[b]
        /\ \A a \in 1..k : rendered[f[a]] = Some(repls[a].current_name)

\* all list Replacements of the state can be located, in order
Locatable == IsSubsequence(ListRepls, Len(ListRepls), Rendered)

\* the first Replacement of repls the rendered names cannot supply
FirstUnmatched(repls, rendered) ==
    CHOOSE k \in 1..Len(repls) :
        /\ ~IsSubsequence(repls, k, rendered)
        /\ \A m \in 1..(k - 1) : IsSubsequence(repls, m, rendered)

\* position of the j-th diagnostic of diags, 0 before the first
Pos(diags, j) == IF j = 0 THEN 0 ELSE diags[j].ident.index

----------------------------------------------------------------------------
(* Claims *)

\* C1: one validation call pushes at most as many diagnostics as there are
\* Replacements for the declaration (own name counted as one), and the sink
\* grows by exactly the diagnostics pushed.
C1_AtMostOnePerReplacement ==
    (Called /\ IsDecl) =>
        /\ Len(call.pushed) <= (IF IsSome(OwnRepl) THEN 1 ELSE 0) + Len(ListRepls)
        /\ sink = call.before \o call.pushed

C1_Witness ==
    /\ Called /\ owner = "FunctionId"
    /\ IsSome(OwnRepl) /\ Len(ListRepls) = 2
    /\ Len(call.pushed) = 2
    /\ call.walked

\* C2: in the list walk, when the current_names of the Replacements are a
\* subsequence of the children's rendered names, there is exactly one list
\* diagnostic per Replacement, in Replacement order, at strictly increasing
\* child positions, each at the first child after the previous position whose
\* rendered name is the Replacement's current_name.
C2_WalkAlignsSubsequence ==
    (Called /\ IsDecl /\ call.walked) =>
        LET repls == ListRepls
            rendered == Rendered
            diags == ListPushed
        IN  IsSubsequence(repls, Len(repls), rendered) =>
              /\ call.outcome = "returned"
              /\ Len(diags) = Len(repls)
              /\ \A j \in 1..Len(repls) :
                    /\ diags[j] = ExpectedDiag(ListType, ListNode,
                                               Pos(diags, j), repls[j])
                    /\ Pos(diags, j - 1) < Pos(diags, j)
                    /\ Pos(diags, j) <= Len(rendered)
                    /\ rendered[Pos(diags, j)] = Some(repls[j].current_name)
                    /\ \A i \in (Pos(diags, j - 1) + 1)..(Pos(diags, j) - 1) :
                          rendered[i] # Some(repls[j].current_name)

\* a conformant first parameter is skipped and the next one is reported
C2_Witness ==
    /\ Called /\ owner = "FunctionId" /\ call.walked
    /\ Len(ListRepls) = 1
    /\ Locatable
    /\ Rendered = <<Some(NameOk), Some(NameCaps)>>
    /\ Len(ListPushed) = 1
    /\ Pos(ListPushed, 1) = 2

\* C3: when the walk runs out of children before matching the k-th
\* Replacement, the list diagnostics are exactly those of Replacements
\* 1..k-1, the own-name diagnostic stays, nothing is taken back from the sink
\* and the call returns normally.
C3_ExhaustedWalkKeepsEarlier ==
    (Called /\ IsDecl /\ call.walked) =>
        LET repls == ListRepls
            rendered == Rendered
            diags == ListPushed
            own == OwnPushed
        IN  ~IsSubsequence(repls, Len(repls), rendered) =>
              LET k == FirstUnmatched(repls, rendered)
              IN  /\ call.outcome = "returned"
                  /\ Len(diags) = k - 1
                  /\ \A j \in 1..(k - 1) :
                        /\ diags[j].ident_text = repls[j].current_name
                        /\ diags[j].suggested_text = repls[j].suggested_text
                  /\ Len(own) = (IF IsSome(OwnRepl) THEN 1 ELSE 0)
                  /\ call.pushed = own \o diags
                  /\ sink = call.before \o call.pushed

\* a struct whose second flagged field is missing keeps the diagnostics of
\* its name and of its first flagged field
C3_Witness ==
    /\ Called /\ owner = "StructId" /\ call.walked
    /\ IsSome(OwnRepl)
    /\ Len(ListRepls) = 2
    /\ ~Locatable
    /\ FirstUnmatched(ListRepls, Rendered) = 2
    /\ Len(call.pushed) = 2
    /\ Len(call.before) = 2
    /\ Len(sink) = 4

\* C4 as stated: with an own-name Replacement and no name node, only the
\* name diagnostic is skipped and every locatable parameter / field
\* Replacement still yields its diagnostic.
C4_OnlyNameSkipped ==
    (Called /\ IsDecl /\ IsSome(OwnRepl) /\ ~IsSome(src.name)) =>
        /\ OwnPushed = <<>>
        /\ (HasContainer /\ Locatable) => Len(ListPushed) = Len(ListRepls)

\* C4 amended: with an own-name Replacement and no name node, the call looks
\* the sources up once, logs, and returns normally before the list stage: it
\* pushes no diagnostic at all, also none for parameters / fields that could
\* be located.
C4_MissingNameEndsCall ==
    (Called /\ IsDecl /\ IsSome(OwnRepl) /\ ~IsSome(src.name)) =>
        /\ call.pushed = <<>>
        /\ sink = call.before
        /\ call.outcome = "returned"
        /\ ~call.walked
        /\ call.lookups = 1
        /\ call.errors = 1

C4_Witness ==
    /\ Called /\ owner = "FunctionId"
    /\ IsSome(OwnRepl) /\ ~IsSome(src.name)
    /\ HasContainer /\ Len(ListRepls) = 2 /\ Locatable
    /\ call.pushed = <<>>

\* C5: with no Replacement at all the call makes no source lookup and leaves
\* the sink as it was; a call makes at most one lookup, and only when there is
\* a Replacement.
C5_LookupOnlyWhenNeeded ==
    (Called /\ IsDecl) =>
        /\ (~IsSome(OwnRepl) /\ ListRepls = <<>>) =>
              (call.lookups = 0 /\ call.pushed = <<>> /\ sink = call.before)
        /\ call.lookups <= 1
        /\ call.lookups = 1 => (IsSome(OwnRepl) \/ ListRepls # <<>>)

C5_Witness ==
    /\ Called /\ owner = "StructId"
    /\ ~IsSome(OwnRepl) /\ ListRepls = <<>>
    /\ data.variant_data.kind = "Record" /\ Len(data.variant_data.fields) = 2
    /\ Len(Children) = 2
    /\ call.lookups = 0

\* C6: without a parameter list / record field list and with list
\* Replacements, the call returns with no Argument / Field diagnostic, and
\* the own-name diagnostic it pushed stays in the sink.
C6_NoContainerNoListDiagnostics ==
    (Called /\ IsDecl /\ ~HasContainer /\ ListRepls # <<>>) =>
        /\ call.outcome = "returned"
        /\ ListPushed = <<>>
        /\ call.pushed =
              (IF IsSome(OwnRepl) /\ IsSome(src.name)
               THEN <<ExpectedDiag(OwnType, "name", 0, Unwrap(OwnRepl))>>
               ELSE <<>>)
        /\ sink = call.before \o call.pushed

C6_Witness ==
    /\ Called /\ owner = "StructId"
    /\ IsSome(src.field_list) /\ ~HasContainer
    /\ Len(ListRepls) = 2
    /\ Len(call.pushed) = 1
    /\ call.pushed[1].ident_type = "Structure"

\* C7: no call panics: every call returns normally, and every list
\* diagnostic sits on a child whose pattern / name is present.
C7_NeverPanics ==
    Called =>
        /\ call.outcome = "returned"
        /\ IsDecl =>
              \A j \in 1..Len(ListPushed) :
                 /\ Pos(ListPushed, j) \in 1..Len(Children)
                 /\ ~Unnamed(Children[Pos(ListPushed, j)])

\* the walk passes a child without pattern and reports the child after it
C7_Witness ==
    /\ Called /\ owner = "FunctionId" /\ call.walked
    /\ Len(Children) = 2
    /\ Unnamed(Children[1])
    /\ Len(ListPushed) = 1
    /\ Pos(ListPushed, 1) = 2

\* the struct is a unit or tuple struct
IsUnitOrTuple ==
    owner = "StructId" /\ data.variant_data.kind \in {"Tuple", "Unit"}

\* C10 as stated: a unit or tuple struct has no field Replacements and takes
\* no child from a field list; with a non-conformant name the call pushes
\* exactly the Structure / UpperCamelCase diagnostic, with a conformant name
\* nothing.
C10_UnitTupleOneDiagnostic ==
    (Called /\ IsUnitOrTuple) =>
        /\ ListRepls = <<>>
        /\ call.steps = 0
        /\ call.pushed =
              (IF IsSome(OwnRepl)
               THEN <<ExpectedDiag("Structure", "name", 0,
                        Replacement(data.name, Unwrap(to_camel_case(data.name)),
                                    "UpperCamelCase"))>>
               ELSE <<>>)

\* C10 amended: as stated when the struct's syntax has a name node; without
\* a name node the call pushes nothing, whatever the name.
C10_UnitTupleOneDiagnosticIfNamed ==
    (Called /\ IsUnitOrTuple) =>
        /\ ListRepls = <<>>
        /\ call.steps = 0
        /\ call.pushed =
              (IF IsSome(OwnRepl) /\ IsSome(src.name)
               THEN <<ExpectedDiag("Structure", "name", 0,
                        Replacement(data.name, Unwrap(to_camel_case(data.name)),
                                    "UpperCamelCase"))>>
               ELSE <<>>)

\* a tuple struct with a bad name and badly named fields, over a record field
\* list that holds such a field, gets the one diagnostic of its name
C10_Witness ==
    /\ Called /\ IsUnitOrTuple
    /\ data.variant_data.kind = "Tuple"
    /\ data.variant_data.fields = <<NameCaps>>
    /\ HasContainer /\ Rendered = <<Some(NameCaps)>>
    /\ Len(call.pushed) = 1
    /\ call.pushed[1].ident_type = "Structure"
    /\ call.pushed[1].suggested_text = NameCamel

\* C8: re-checking the suggestion of the classifier (or the name itself when
\* there is none) in the same convention gives None.
C8_ClassifierIdempotent ==
    cl_pc = "rechecked" => cl_second = None

C8_Witness ==
    /\ cl_pc = "rechecked"
    /\ cl_case = "UpperCamelCase"
    /\ cl_name = <<"a", "_", "b">>
    /\ cl_first = Some(<<"A", "B">>)
    /\ cl_second = None

\* the classifier's result for name in convention, once it has been applied
Classified(name, convention, result) ==
    (cl_pc # "input" /\ cl_name = name /\ cl_case = convention) =>
        cl_first = result

\* C9: the classifier returns the stated suggestions for the names of the
\* tests, and None for foo_bar in lower snake case and FooBar in upper camel
\* case.
C9_StatedSuggestions ==
    /\ Classified(<<"N","o","n","S","n","a","k","e","C","a","s","e","N","a","m","e">>,
                  "LowerSnakeCase",
                  Some(<<"n","o","n","_","s","n","a","k","e","_","c","a","s","e",
                         "_","n","a","m","e">>))
    /\ Classified(<<"S","o","m","e","P","a","r","a","m">>, "LowerSnakeCase",
                  Some(<<"s","o","m","e","_","p","a","r","a","m">>))
    /\ Classified(<<"C","A","P","S","_","P","A","R","A","M">>, "LowerSnakeCase",
                  Some(<<"c","a","p","s","_","p","a","r","a","m">>))
    /\ Classified(<<"S","o","m","e","F","i","e","l","d">>, "LowerSnakeCase",
                  Some(<<"s","o","m","e","_","f","i","e","l","d">>))
    /\ Classified(<<"n","o","n","_","c","a","m","e","l","_","c","a","s","e",
                    "_","n","a","m","e">>,
                  "UpperCamelCase",
                  Some(<<"N","o","n","C","a","m","e","l","C","a","s","e",
                         "N","a","m","e">>))
    /\ Classified(<<"f","o","o","_","b","a","r">>, "LowerSnakeCase", None)
    /\ Classified(<<"F","o","o","B","a","r">>, "UpperCamelCase", None)

C9_Witness ==
    /\ cl_pc = "classified"
    /\ cl_name = <<"C","A","P","S","_","P","A","R","A","M">>
    /\ cl_case = "LowerSnakeCase"
    /\ cl_first = Some(<<"c","a","p","s","_","p","a","r","a","m">>)

====
